---- MODULE Spec2Model ----
(***************************************************************************)
(* The log-collection engine of dprs: src/src/docker_log_watcher.rs.       *)
(*                                                                         *)
(* A DockerLogWatcher (the spec's Collector) owns a bounded line buffer    *)
(* and a running flag, both shared with the threads that start() spawns.   *)
(* Each call of start() creates one thread group, here a "session": the    *)
(* outer thread that launches `docker logs --follow`, the stdout reader,   *)
(* the stderr reader and the detached supervisor that kills the            *)
(* subprocess.  A DockerLogManager (the spec's Registry) owns a Vec of     *)
(* watchers.  The owner of a watcher or manager is one thread, the caller; *)
(* its blocking calls (stop, stop_all, start_watching_all_containers) are  *)
(* split where they wait in a join; a call that never waits is one step.   *)
(*                                                                         *)
(* Spec is one stand-alone watcher on which start() is called once;        *)
(* RestartSpec lets its owner call start() again; RegSpec is one manager;  *)
(* TabsSpec is the tab bar of the log viewer.  The two budgets sessLeft    *)
(* and linesLeft keep the runs finite: they cap the start() calls and the  *)
(* lines delivered.                                                        *)
(*                                                                         *)
(* Text is modelled as sequences of byte codes, so that the "ERROR: "      *)
(* prefix and trim() are real string operations.                           *)
(***************************************************************************)
EXTENDS Integers, Sequences, FiniteSets, TLC

VARIABLES
    colls,      \* every DockerLogWatcher constructed so far, by identity
    sess,       \* every thread group spawned by a start() so far
    watchers,   \* DockerLogManager.watchers: identities, in Vec order
    caller,     \* where the owning thread is inside a blocking call
    snapshot,   \* value returned by the latest get_logs()
    result,     \* Result returned by the latest start()/refresh()/...
    sessLeft,   \* how many more start() calls the run may make
    linesLeft,  \* how many more lines the containers may still deliver
    tabs,       \* the LogTabs of the log viewer, with its latest call
    view,       \* one LogView of the log viewer, with its latest call
    app,        \* the locals of the log viewer's run_app loop
    early       \* the manager of the earlier, Vec-backed watcher variant

vars ==
    <<colls, sess, watchers, caller, snapshot, result, sessLeft, linesLeft,
      tabs, view, app, early>>

(***************************************************************************)
(* Bounds of the model.                                                    *)
(***************************************************************************)
MaxCap == 2         \* largest max_logs of the stand-alone watcher
MaxLines == 3       \* lines delivered to the stand-alone watcher
MaxSess == 2        \* watchers a manager starts during one run
MaxRegLines == 1    \* lines delivered to the watchers of a manager
MaxStarts == 2       \* start() calls on the restarted watcher
MaxRestartLines == 1 \* lines delivered to the restarted watcher
MaxTabs == 3         \* titles of one LogTabs
MaxViewLogs == 3     \* largest max_logs of the LogView
MaxMessages == 2     \* distinct messages given to add_log
MaxHeight == 2       \* largest visible_height of a page_up / page_down
MaxPs == 2          \* lines of one `docker ps` output

(***************************************************************************)
(* Program constants.                                                      *)
(***************************************************************************)
DefaultMaxLogs == 1000
Space == 32
ErrorPrefix == <<69, 82, 82, 79, 82, 58, 32>>      \* "ERROR: "

Streams == {"stdout", "stderr"}

\* The k-th line a stream delivers: the one-character string of digit k.
LineOf(k) == <<48 + k>>

\* Container names and the lines `docker ps` may print.
NameA == <<65>>
NameB == <<66>>
Names == {NameA, NameB}
PsLines == {<<Space>>, <<Space, 65>>, <<66>>}

NoSnapshot == [c |-> 0, lines |-> <<>>, seen |-> 0]
NoItem == [kind |-> "none", line |-> <<>>]
\* No LogView constructed.
NoView ==
    [logs |-> <<>>, max_logs |-> 0, scroll_position |-> 0, follow_mode |-> FALSE,
     parsed_cache |-> <<>>, call |-> "none", before |-> 0]

\* No LogTabs constructed: the engine runs without the viewer.
NoTabs == [titles |-> <<>>, index |-> 0, call |-> "none", arg |-> 0, before |-> 0]

\* No run_app loop: the engine runs without the viewer.
NoApp == [pc |-> "none", log_views |-> <<>>, log_tabs |-> NoTabs, log_area_height |-> 0]

\* No manager of the earlier variant constructed.
NoEarly ==
    [pc |-> "none", watchers |-> <<>>, handles |-> <<>>, threads |-> <<>>,
     i |-> 0, h |-> 0, then |-> "", out |-> 0, startsLeft |-> 0, linesLeft |-> 0]

Idle == [op |-> "idle", c |-> 0, h |-> 0, i |-> 0, then |-> "", out |-> <<>>]

\* A constructor that leaves the running flag set.
NewWatcherRunning(name, max) ==
    [container_name |-> name, logs |-> <<>>, max_logs |-> max, handle |-> 0,
     running |-> TRUE, locked |-> FALSE, hist |-> <<>>, stopped |-> FALSE]

(***************************************************************************)
(* DockerLogWatcher::new                                                   *)
(***************************************************************************)
NewWatcher(name, max) ==
    [container_name |-> name, logs |-> <<>>, max_logs |-> max, handle |-> 0,
     running |-> FALSE, locked |-> FALSE, hist |-> <<>>, stopped |-> FALSE]

\* The thread group a start() creates: only the outer thread exists yet.
NewSession(c) ==
    [coll |-> c, main |-> "spawn",
     rd |-> [st \in Streams |-> [pc |-> "none", item |-> NoItem, n |-> 0]],
     sup |-> "none", proc |-> "none", killFailed |-> FALSE]

(***************************************************************************)
(* The buffer: push_back, then pop_front while over capacity.              *)
(***************************************************************************)
\* Mutant of PopFrontWhileOver: evicts the newest line instead of the oldest.
RECURSIVE PopBackWhileOver(_, _)
PopBackWhileOver(logs, max) ==
    IF Len(logs) > max
    THEN PopBackWhileOver(SubSeq(logs, 1, Len(logs) - 1), max)
    ELSE logs

RECURSIVE PopFrontWhileOver(_, _)
PopFrontWhileOver(logs, max) ==
    IF Len(logs) > max THEN PopFrontWhileOver(Tail(logs), max) ELSE logs

\* What a reader stores for a line of its stream.
\* A stderr line stored as it was read, without the prefix.
StoredUntagged(st, line) == line

Stored(st, line) == IF st = "stderr" THEN ErrorPrefix \o line ELSE line

\* The last n elements of a sequence (all of it when it is shorter).
LastN(s, n) ==
    IF Len(s) <= n THEN s ELSE SubSeq(s, Len(s) - n + 1, Len(s))

(***************************************************************************)
(* str::trim on one line.                                                  *)
(***************************************************************************)
RECURSIVE TrimStart(_)
TrimStart(s) ==
    IF s # <<>> /\ Head(s) = Space THEN TrimStart(Tail(s)) ELSE s

RECURSIVE TrimEnd(_)
TrimEnd(s) ==
    IF s # <<>> /\ s[Len(s)] = Space THEN TrimEnd(SubSeq(s, 1, Len(s) - 1)) ELSE s

Trim(s) == TrimEnd(TrimStart(s))

(***************************************************************************)
(* DockerLogWatcher::start on watcher c, as a function on the three        *)
(* collections: sets the flag, spawns the outer thread, keeps its handle.  *)
(***************************************************************************)
StartOn(w, c) ==
    [w EXCEPT !.colls = [@ EXCEPT ![c].running = TRUE,
                                   ![c].handle = Len(w.sess) + 1],
              !.sess = Append(@, NewSession(c))]

\* start_watching_container that inserts the new watcher at the front.
WatchContainerFront(w, name) ==
    LET c == Len(w.colls) + 1
        w1 == [w EXCEPT !.colls = Append(@, NewWatcher(name, DefaultMaxLogs))]
        w2 == StartOn(w1, c)
    IN  [w2 EXCEPT !.watchers = <<c>> \o @]

\* DockerLogManager::start_watching_container
WatchContainer(w, name) ==
    LET c == Len(w.colls) + 1
        w1 == [w EXCEPT !.colls = Append(@, NewWatcher(name, DefaultMaxLogs))]
        w2 == StartOn(w1, c)
    IN  [w2 EXCEPT !.watchers = Append(@, c)]

\* The loop of start_watching_all_containers over the lines of the output.
RECURSIVE WatchLines(_, _)
WatchLines(w, lines) ==
    IF lines = <<>> THEN w
    ELSE LET name == Trim(Head(lines))
         IN  WatchLines(IF name # <<>> THEN WatchContainer(w, name) ELSE w,
                        Tail(lines))

RECURSIVE NonEmptyLines(_)
NonEmptyLines(lines) ==
    IF lines = <<>> THEN 0
    ELSE (IF Trim(Head(lines)) # <<>> THEN 1 ELSE 0) + NonEmptyLines(Tail(lines))

World == [colls |-> colls, sess |-> sess, watchers |-> watchers]

\* Mutant of MainFinished: the join returns as soon as the outer thread has
\* got past the launch, without the readers having ended.
MainPastLaunch(h) == sess[h].main # "spawn"

\* The outer thread of session h has ended (normally or by panic):
\* JoinHandle::join on it returns.
MainFinished(h) == sess[h].main \in {"done", "panicked"}

Held(c) == \E i \in 1..Len(watchers) : watchers[i] = c

(***************************************************************************)
(* Threads of one session s.                                               *)
(***************************************************************************)

\* A launch that spawns the two readers but no supervisor.
LaunchNoSupervisor(s) ==
    /\ sess[s].main = "spawn"
    /\ sess' = [sess EXCEPT ![s].main = "join_stdout",
                            ![s].proc = "alive",
                            ![s].rd = [st \in Streams |->
                                          [pc |-> "read", item |-> NoItem, n |-> 0]]]
    /\ UNCHANGED <<tabs, view, app, early, colls, watchers, caller, snapshot, result, sessLeft, linesLeft>>

\* Outer thread: Command::spawn succeeds; the pipes are taken and the two
\* readers and the supervisor are spawned.
Launch(s) ==
    /\ sess[s].main = "spawn"
    /\ sess' = [sess EXCEPT ![s].main = "join_stdout",
                            ![s].proc = "alive",
                            ![s].rd = [st \in Streams |->
                                          [pc |-> "read", item |-> NoItem, n |-> 0]],
                            ![s].sup = "poll"]
    /\ UNCHANGED <<tabs, view, app, early, colls, watchers, caller, snapshot, result, sessLeft, linesLeft>>

\* Outer thread: Command::spawn fails (or a pipe is missing); expect() panics.
LaunchFail(s) ==
    /\ sess[s].main = "spawn"
    /\ sess' = [sess EXCEPT ![s].main = "panicked"]
    /\ UNCHANGED <<tabs, view, app, early, colls, watchers, caller, snapshot, result, sessLeft, linesLeft>>

JoinStdout(s) ==
    /\ sess[s].main = "join_stdout"
    /\ sess[s].rd["stdout"].pc = "done"
    /\ sess' = [sess EXCEPT ![s].main = "join_stderr"]
    /\ UNCHANGED <<tabs, view, app, early, colls, watchers, caller, snapshot, result, sessLeft, linesLeft>>

JoinStderr(s) ==
    /\ sess[s].main = "join_stderr"
    /\ sess[s].rd["stderr"].pc = "done"
    /\ sess' = [sess EXCEPT ![s].main = "done"]
    /\ UNCHANGED <<tabs, view, app, early, colls, watchers, caller, snapshot, result, sessLeft, linesLeft>>

\* Reader: lines().next() yields the next line of the pipe.
ReadLine(s, st) ==
    /\ sess[s].rd[st].pc = "read"
    /\ linesLeft > 0
    /\ linesLeft' = linesLeft - 1
    /\ sess' = [sess EXCEPT ![s].rd[st] =
                   [pc |-> "check",
                    item |-> [kind |-> "ok", line |-> LineOf(@.n + 1)],
                    n |-> @.n + 1]]
    /\ UNCHANGED <<tabs, view, app, early, colls, watchers, caller, snapshot, result, sessLeft>>

\* Reader: lines().next() yields Err for a line (e.g. invalid UTF-8).
ReadErr(s, st) ==
    /\ sess[s].rd[st].pc = "read"
    /\ linesLeft > 0
    /\ linesLeft' = linesLeft - 1
    /\ sess' = [sess EXCEPT ![s].rd[st] =
                   [pc |-> "check",
                    item |-> [kind |-> "err", line |-> <<>>],
                    n |-> @.n + 1]]
    /\ UNCHANGED <<tabs, view, app, early, colls, watchers, caller, snapshot, result, sessLeft>>

\* A reader that clears the flag when its stream ends.
ReadEofClearsFlag(s, st) ==
    /\ sess[s].rd[st].pc = "read"
    /\ sess[s].proc \in {"exited", "killed"}
    /\ sess' = [sess EXCEPT ![s].rd[st].pc = "done"]
    /\ colls' = [colls EXCEPT ![sess[s].coll].running = FALSE]
    /\ UNCHANGED <<tabs, view, app, early, watchers, caller, snapshot, result, sessLeft, linesLeft>>

\* Reader: the subprocess is gone and the pipe is drained: end of stream.
ReadEof(s, st) ==
    /\ sess[s].rd[st].pc = "read"
    /\ sess[s].proc \in {"exited", "killed"}
    /\ sess' = [sess EXCEPT ![s].rd[st].pc = "done"]
    /\ UNCHANGED <<tabs, view, app, early, colls, watchers, caller, snapshot, result, sessLeft, linesLeft>>

\* A reader that pushes every line it reads, whatever the flag says.
AfterCheckIgnoresFlag(running, item) ==
    IF item.kind = "ok" THEN "push" ELSE "read"

\* Where a reader goes after looking at the flag with an item in hand.
AfterCheck(running, item) ==
    IF ~running THEN "done"
    ELSE IF item.kind = "ok" THEN "push"
    ELSE "read"

\* Reader: `if !*running.lock() { break }`, then `if let Ok(line) = line`.
CheckRunning(s, st) ==
    /\ sess[s].rd[st].pc = "check"
    /\ LET next == AfterCheck(colls[sess[s].coll].running, sess[s].rd[st].item)
       IN  sess' = [sess EXCEPT ![s].rd[st].pc = next,
                                ![s].rd[st].item =
                                    IF next = "push" THEN @ ELSE NoItem]
    /\ UNCHANGED <<tabs, view, app, early, colls, watchers, caller, snapshot, result, sessLeft, linesLeft>>

\* A reader that pushes the line at the front of the buffer.
PushFront(s, st) ==
    LET c == sess[s].coll
        line == Stored(st, sess[s].rd[st].item.line)
    IN  /\ sess[s].rd[st].pc = "push"
        /\ ~colls[c].locked
        /\ colls' = [colls EXCEPT ![c].locked = TRUE,
                                  ![c].logs = <<line>> \o @,
                                  ![c].hist = Append(@, line)]
        /\ sess' = [sess EXCEPT ![s].rd[st].pc = "evict",
                                ![s].rd[st].item = NoItem]
        /\ UNCHANGED <<tabs, view, app, early, watchers, caller, snapshot, result, sessLeft, linesLeft>>

\* Reader: takes the buffer lock and push_back()s the line.
PushBack(s, st) ==
    LET c == sess[s].coll
        line == Stored(st, sess[s].rd[st].item.line)
    IN  /\ sess[s].rd[st].pc = "push"
        /\ ~colls[c].locked
        /\ colls' = [colls EXCEPT ![c].locked = TRUE,
                                  ![c].logs = Append(@, line),
                                  ![c].hist = Append(@, line)]
        /\ sess' = [sess EXCEPT ![s].rd[st].pc = "evict",
                                ![s].rd[st].item = NoItem]
        /\ UNCHANGED <<tabs, view, app, early, watchers, caller, snapshot, result, sessLeft, linesLeft>>

\* A reader that pops while over capacity and keeps the buffer locked.
EvictKeepsLock(s, st) ==
    LET c == sess[s].coll
    IN  /\ sess[s].rd[st].pc = "evict"
        /\ colls' = [colls EXCEPT ![c].logs = PopFrontWhileOver(@, colls[c].max_logs)]
        /\ sess' = [sess EXCEPT ![s].rd[st].pc = "read"]
        /\ UNCHANGED <<tabs, view, app, early, watchers, caller, snapshot, result, sessLeft, linesLeft>>

\* Reader: pops from the front while over capacity, releases the lock.
Evict(s, st) ==
    LET c == sess[s].coll
    IN  /\ sess[s].rd[st].pc = "evict"
        /\ colls' = [colls EXCEPT ![c].locked = FALSE,
                                  ![c].logs = PopFrontWhileOver(@, colls[c].max_logs)]
        /\ sess' = [sess EXCEPT ![s].rd[st].pc = "read"]
        /\ UNCHANGED <<tabs, view, app, early, watchers, caller, snapshot, result, sessLeft, linesLeft>>

\* Supervisor: sees running == true, sleeps 100 ms and polls again.
SupSleep(s) ==
    /\ sess[s].sup = "poll"
    /\ colls[sess[s].coll].running
    /\ UNCHANGED vars

\* Mutant of SupKill: the supervisor ends without killing the subprocess.
SupEndsWithoutKill(s) ==
    /\ sess[s].sup = "poll"
    /\ ~colls[sess[s].coll].running
    /\ sess' = [sess EXCEPT ![s].sup = "done"]
    /\ UNCHANGED <<tabs, view, app, early, colls, watchers, caller, snapshot, result, sessLeft, linesLeft>>

\* Supervisor: sees running == false, kills the subprocess and ends.
SupKill(s) ==
    /\ sess[s].sup = "poll"
    /\ ~colls[sess[s].coll].running
    /\ sess' = [sess EXCEPT ![s].sup = "done",
                            ![s].proc = IF @ = "alive" THEN "killed" ELSE @]
    /\ UNCHANGED <<tabs, view, app, early, colls, watchers, caller, snapshot, result, sessLeft, linesLeft>>

\* A supervisor whose kill() is attempted without looking at the flag.
SupKillFailEarly(s) ==
    /\ sess[s].sup = "poll"
    /\ sess[s].proc = "alive"
    /\ sess' = [sess EXCEPT ![s].sup = "done", ![s].killFailed = TRUE]
    /\ UNCHANGED <<tabs, view, app, early, colls, watchers, caller, snapshot, result, sessLeft, linesLeft>>

\* Supervisor: sees running == false, kill() fails, its result is dropped.
SupKillFail(s) ==
    /\ sess[s].sup = "poll"
    /\ ~colls[sess[s].coll].running
    /\ sess[s].proc = "alive"
    /\ sess' = [sess EXCEPT ![s].sup = "done", ![s].killFailed = TRUE]
    /\ UNCHANGED <<tabs, view, app, early, colls, watchers, caller, snapshot, result, sessLeft, linesLeft>>

\* The subprocess ends on its own (the container stopped).
ProcExit(s) ==
    /\ sess[s].proc = "alive"
    /\ sess' = [sess EXCEPT ![s].proc = "exited"]
    /\ UNCHANGED <<tabs, view, app, early, colls, watchers, caller, snapshot, result, sessLeft, linesLeft>>

Workers ==
    \/ \E s \in 1..Len(sess) : Launch(s)
    \/ \E s \in 1..Len(sess) : LaunchFail(s)
    \/ \E s \in 1..Len(sess) : JoinStdout(s)
    \/ \E s \in 1..Len(sess) : JoinStderr(s)
    \/ \E s \in 1..Len(sess), st \in Streams : ReadLine(s, st)
    \/ \E s \in 1..Len(sess), st \in Streams : ReadErr(s, st)
    \/ \E s \in 1..Len(sess), st \in Streams : ReadEof(s, st)
    \/ \E s \in 1..Len(sess), st \in Streams : CheckRunning(s, st)
    \/ \E s \in 1..Len(sess), st \in Streams : PushBack(s, st)
    \/ \E s \in 1..Len(sess), st \in Streams : Evict(s, st)
    \/ \E s \in 1..Len(sess) : SupSleep(s)
    \/ \E s \in 1..Len(sess) : SupKill(s)
    \/ \E s \in 1..Len(sess) : SupKillFail(s)

Environment == \E s \in 1..Len(sess) : ProcExit(s)

(***************************************************************************)
(* The owner's calls on a stand-alone DockerLogWatcher c.                  *)
(***************************************************************************)

\* DockerLogWatcher::start: always returns Ok(()).
Start(c) ==
    /\ caller.op = "idle"
    /\ ~Held(c)
    /\ sessLeft > 0
    /\ sessLeft' = sessLeft - 1
    /\ LET w == StartOn(World, c)
       IN  colls' = w.colls /\ sess' = w.sess
    /\ result' = "ok"
    /\ UNCHANGED <<tabs, view, app, early, watchers, caller, snapshot, linesLeft>>

\* stop() that reads the handle without taking it out of the watcher.
StopBeginKeepsHandle(c) ==
    /\ caller.op = "idle"
    /\ ~Held(c)
    /\ colls[c].handle # 0
    /\ colls' = [colls EXCEPT ![c].running = FALSE]
    /\ caller' = [Idle EXCEPT !.op = "stop", !.c = c, !.h = colls[c].handle]
    /\ UNCHANGED <<tabs, view, app, early, sess, watchers, snapshot, result, sessLeft, linesLeft>>

\* DockerLogWatcher::stop with a handle: clears the flag, then joins.
StopBegin(c) ==
    /\ caller.op = "idle"
    /\ ~Held(c)
    /\ colls[c].handle # 0
    /\ colls' = [colls EXCEPT ![c].handle = 0, ![c].running = FALSE]
    /\ caller' = [Idle EXCEPT !.op = "stop", !.c = c, !.h = colls[c].handle]
    /\ UNCHANGED <<tabs, view, app, early, sess, watchers, snapshot, result, sessLeft, linesLeft>>

\* DockerLogWatcher::stop: handle.join() returns and so does stop().
StopJoin ==
    /\ caller.op = "stop"
    /\ MainFinished(caller.h)
    /\ colls' = [colls EXCEPT ![caller.c].stopped = TRUE]
    /\ caller' = Idle
    /\ UNCHANGED <<tabs, view, app, early, sess, watchers, snapshot, result, sessLeft, linesLeft>>

\* DockerLogWatcher::stop without a handle: nothing to do.
StopNoop(c) ==
    /\ caller.op = "idle"
    /\ ~Held(c)
    /\ colls[c].handle = 0
    /\ UNCHANGED vars

\* Mutant of GetLogs: reads the buffer without taking its lock.
GetLogsUnlocked(c) ==
    /\ caller.op = "idle"
    /\ snapshot' = [c |-> c, lines |-> colls[c].logs, seen |-> Len(colls[c].hist)]
    /\ UNCHANGED <<tabs, view, app, early, colls, sess, watchers, caller, result, sessLeft, linesLeft>>

\* DockerLogWatcher::get_logs: a copy of the buffer, taken under its lock.
GetLogs(c) ==
    /\ caller.op = "idle"
    /\ ~colls[c].locked
    /\ snapshot' = [c |-> c, lines |-> colls[c].logs, seen |-> Len(colls[c].hist)]
    /\ UNCHANGED <<tabs, view, app, early, colls, sess, watchers, caller, result, sessLeft, linesLeft>>

WatcherCalls ==
    \/ \E c \in 1..Len(colls) : Start(c)
    \/ \E c \in 1..Len(colls) : StopBegin(c)
    \/ \E c \in 1..Len(colls) : StopNoop(c)
    \/ \E c \in 1..Len(colls) : GetLogs(c)
    \/ StopJoin

Init ==
    /\ \E max \in 0..MaxCap : colls = <<NewWatcher(NameA, max)>>
    /\ sess = <<>>
    /\ watchers = <<>>
    /\ caller = Idle
    /\ snapshot = NoSnapshot
    /\ result = "none"
    /\ sessLeft = 1
    /\ linesLeft = MaxLines
    /\ tabs = NoTabs
    /\ view = NoView
    /\ app = NoApp
    /\ early = NoEarly

Next == WatcherCalls \/ Workers \/ Environment

\* One stand-alone DockerLogWatcher of any small capacity, started once.
Spec == Init /\ [][Next]_vars

\* The same watcher when its owner may call start() again: start() has no
\* guard on the state of the watcher (lines 36-45), so the owner can.
RestartInit ==
    /\ \E max \in 0..MaxCap : colls = <<NewWatcher(NameA, max)>>
    /\ sess = <<>>
    /\ watchers = <<>>
    /\ caller = Idle
    /\ snapshot = NoSnapshot
    /\ result = "none"
    /\ sessLeft = MaxStarts
    /\ linesLeft = MaxRestartLines
    /\ tabs = NoTabs
    /\ view = NoView
    /\ app = NoApp
    /\ early = NoEarly

RestartSpec == RestartInit /\ [][Next]_vars

(***************************************************************************)
(* DockerLogManager.  Indices of get_watcher are 0-based, as in the Vec.   *)
(***************************************************************************)
None == 0

\* get_watcher that counts positions from the back of the Vec.
get_watcher_from_back(index) ==
    IF index < Len(watchers) THEN watchers[Len(watchers) - index] ELSE None

get_watcher(index) ==
    IF index < Len(watchers) THEN watchers[index + 1] ELSE None

watcher_count == Len(watchers)

\* Every output `docker ps` may print: up to MaxPs lines.
PsOutputs == UNION {[1..n -> PsLines] : n \in 0..MaxPs}

\* start_watching_container that starts a held watcher of the same name
\* again instead of constructing a new one.
StartWatchingContainerReuses(name) ==
    /\ caller.op = "idle"
    /\ sessLeft > 0
    /\ sessLeft' = sessLeft - 1
    /\ LET same == {c \in 1..Len(colls) : Held(c) /\ colls[c].container_name = name}
           w == IF same = {} THEN WatchContainer(World, name)
                ELSE StartOn(World, CHOOSE c \in same : TRUE)
       IN  colls' = w.colls /\ sess' = w.sess /\ watchers' = w.watchers
    /\ result' = "ok"
    /\ UNCHANGED <<tabs, view, app, early, caller, snapshot, linesLeft>>

\* start_watching_container(name): new watcher of the default capacity,
\* started and pushed.  start() never returns Err, so neither does this.
StartWatchingContainer(name) ==
    /\ caller.op = "idle"
    /\ sessLeft > 0
    /\ sessLeft' = sessLeft - 1
    /\ LET w == WatchContainer(World, name)
       IN  colls' = w.colls /\ sess' = w.sess /\ watchers' = w.watchers
    /\ result' = "ok"
    /\ UNCHANGED <<tabs, view, app, early, caller, snapshot, linesLeft>>

\* Mutant of DiscoveryFails: the failed query empties the manager.
DiscoveryFailsAndClears ==
    /\ caller.op = "idle"
    /\ result' = "err"
    /\ watchers' = <<>>
    /\ UNCHANGED <<tabs, view, app, early, colls, sess, caller, snapshot, sessLeft, linesLeft>>

\* start_watching_all_containers / refresh: `docker ps` cannot be executed
\* or exits unsuccessfully; the early return leaves the manager as it was.
DiscoveryFails ==
    /\ caller.op = "idle"
    /\ result' = "err"
    /\ UNCHANGED <<tabs, view, app, early, colls, sess, watchers, caller, snapshot, sessLeft, linesLeft>>

\* start_watching_all_containers / refresh: `docker ps` printed `output`;
\* the call enters stop_all().
DiscoveryOk(output) ==
    /\ caller.op = "idle"
    /\ NonEmptyLines(output) <= sessLeft
    /\ caller' = [Idle EXCEPT !.op = "stop_all", !.i = 1,
                              !.then = "watch", !.out = output]
    /\ UNCHANGED <<tabs, view, app, early, colls, sess, watchers, snapshot, result, sessLeft, linesLeft>>

\* stop_all() called by the owner.
StopAllCall ==
    /\ caller.op = "idle"
    /\ caller' = [Idle EXCEPT !.op = "stop_all", !.i = 1, !.then = "return"]
    /\ UNCHANGED <<tabs, view, app, early, colls, sess, watchers, snapshot, result, sessLeft, linesLeft>>

\* stop_all() that passes over each watcher without stopping it.
StopAllStopSkips ==
    /\ caller.op = "stop_all"
    /\ caller.h = 0
    /\ caller.i <= Len(watchers)
    /\ caller' = [caller EXCEPT !.i = @ + 1]
    /\ UNCHANGED <<tabs, view, app, early, colls, sess, watchers, snapshot, result, sessLeft, linesLeft>>

\* stop_all() that takes a watcher with no handle out of the Vec.
StopAllStopDropsStopped ==
    /\ caller.op = "stop_all"
    /\ caller.h = 0
    /\ caller.i <= Len(watchers)
    /\ LET c == watchers[caller.i]
       IN  IF colls[c].handle = 0
           THEN /\ watchers' = SubSeq(watchers, 1, caller.i - 1)
                                   \o SubSeq(watchers, caller.i + 1, Len(watchers))
                /\ UNCHANGED <<caller, colls>>
           ELSE /\ colls' = [colls EXCEPT ![c].handle = 0, ![c].running = FALSE]
                /\ caller' = [caller EXCEPT !.h = colls[c].handle]
                /\ UNCHANGED watchers
    /\ UNCHANGED <<tabs, view, app, early, sess, snapshot, result, sessLeft, linesLeft>>

\* stop_all(): watcher.stop() on the next watcher, up to its join.
StopAllStop ==
    /\ caller.op = "stop_all"
    /\ caller.h = 0
    /\ caller.i <= Len(watchers)
    /\ LET c == watchers[caller.i]
       IN  IF colls[c].handle = 0
           THEN /\ caller' = [caller EXCEPT !.i = @ + 1]
                /\ UNCHANGED colls
           ELSE /\ colls' = [colls EXCEPT ![c].handle = 0, ![c].running = FALSE]
                /\ caller' = [caller EXCEPT !.h = colls[c].handle]
    /\ UNCHANGED <<tabs, view, app, early, sess, watchers, snapshot, result, sessLeft, linesLeft>>

\* A join that returns Err for a panicked thread and makes stop_all() wait
\* for ever: only a thread that ended normally lets it go on.
StopAllJoinUnwraps ==
    /\ caller.op = "stop_all"
    /\ caller.h # 0
    /\ sess[caller.h].main = "done"
    /\ colls' = [colls EXCEPT ![watchers[caller.i]].stopped = TRUE]
    /\ caller' = [caller EXCEPT !.h = 0, !.i = @ + 1]
    /\ UNCHANGED <<tabs, view, app, early, sess, watchers, snapshot, result, sessLeft, linesLeft>>

\* A join that returns as soon as it is called, whatever the thread does.
StopAllJoinNoWait ==
    /\ caller.op = "stop_all"
    /\ caller.h # 0
    /\ colls' = [colls EXCEPT ![watchers[caller.i]].stopped = TRUE]
    /\ caller' = [caller EXCEPT !.h = 0, !.i = @ + 1]
    /\ UNCHANGED <<tabs, view, app, early, sess, watchers, snapshot, result, sessLeft, linesLeft>>

\* stop_all(): the join inside watcher.stop() returns.
StopAllJoin ==
    /\ caller.op = "stop_all"
    /\ caller.h # 0
    /\ MainFinished(caller.h)
    /\ colls' = [colls EXCEPT ![watchers[caller.i]].stopped = TRUE]
    /\ caller' = [caller EXCEPT !.h = 0, !.i = @ + 1]
    /\ UNCHANGED <<tabs, view, app, early, sess, watchers, snapshot, result, sessLeft, linesLeft>>

\* Mutant of StopAllReturn: stop_all() clears the Vec before it returns.
StopAllReturnCleared ==
    /\ caller.op = "stop_all"
    /\ caller.h = 0
    /\ caller.i > Len(watchers)
    /\ caller.then = "return"
    /\ caller' = Idle
    /\ watchers' = <<>>
    /\ UNCHANGED <<tabs, view, app, early, colls, sess, snapshot, result, sessLeft, linesLeft>>

\* stop_all() returns to the owner: the Vec is as it was.
StopAllReturn ==
    /\ caller.op = "stop_all"
    /\ caller.h = 0
    /\ caller.i > Len(watchers)
    /\ caller.then = "return"
    /\ caller' = Idle
    /\ UNCHANGED <<tabs, view, app, early, colls, sess, watchers, snapshot, result, sessLeft, linesLeft>>

\* Mutant of WatchDiscovered: the Vec is not cleared before the new
\* watchers are pushed.
WatchDiscoveredNoClear ==
    /\ caller.op = "stop_all"
    /\ caller.h = 0
    /\ caller.i > Len(watchers)
    /\ caller.then = "watch"
    /\ LET w == WatchLines(World, caller.out)
       IN  /\ colls' = w.colls /\ sess' = w.sess /\ watchers' = w.watchers
           /\ sessLeft' = sessLeft - (Len(w.watchers) - Len(watchers))
    /\ caller' = Idle
    /\ result' = "ok"
    /\ UNCHANGED <<tabs, view, app, early, snapshot, linesLeft>>

\* start_watching_all_containers after stop_all(): clear(), then one
\* start_watching_container per non-empty trimmed line.
WatchDiscovered ==
    /\ caller.op = "stop_all"
    /\ caller.h = 0
    /\ caller.i > Len(watchers)
    /\ caller.then = "watch"
    /\ LET w == WatchLines([World EXCEPT !.watchers = <<>>], caller.out)
       IN  /\ colls' = w.colls /\ sess' = w.sess /\ watchers' = w.watchers
           /\ sessLeft' = sessLeft - Len(w.watchers)
    /\ caller' = Idle
    /\ result' = "ok"
    /\ UNCHANGED <<tabs, view, app, early, snapshot, linesLeft>>

\* A drop that frees the manager without calling stop_all().
DropSkipsStopAll ==
    /\ caller.op = "idle"
    /\ caller' = [Idle EXCEPT !.op = "stop_all", !.i = Len(watchers) + 1,
                              !.then = "drop"]
    /\ UNCHANGED <<tabs, view, app, early, colls, sess, watchers, snapshot, result, sessLeft, linesLeft>>

\* impl Drop for DockerLogManager: the owner lets go of the manager and
\* drop() enters stop_all().
DropManager ==
    /\ caller.op = "idle"
    /\ caller' = [Idle EXCEPT !.op = "stop_all", !.i = 1, !.then = "drop"]
    /\ UNCHANGED <<tabs, view, app, early, colls, sess, watchers, snapshot, result, sessLeft, linesLeft>>

\* drop() returns from stop_all(): the Vec is freed with the manager, and
\* the owner can make no further call.  The threads that are left go on.
DropReturn ==
    /\ caller.op = "stop_all"
    /\ caller.h = 0
    /\ caller.i > Len(watchers)
    /\ caller.then = "drop"
    /\ caller' = [Idle EXCEPT !.op = "dropped"]
    /\ watchers' = <<>>
    /\ UNCHANGED <<tabs, view, app, early, colls, sess, snapshot, result, sessLeft, linesLeft>>

ManagerCalls ==
    \/ \E name \in Names : StartWatchingContainer(name)
    \/ DiscoveryFails
    \/ \E output \in PsOutputs : DiscoveryOk(output)
    \/ StopAllCall
    \/ StopAllStop \/ StopAllJoin \/ StopAllReturn \/ WatchDiscovered
    \/ DropManager \/ DropReturn

RegInit ==
    /\ colls = <<>>
    /\ sess = <<>>
    /\ watchers = <<>>
    /\ caller = Idle
    /\ snapshot = NoSnapshot
    /\ result = "none"
    /\ sessLeft = MaxSess
    /\ linesLeft = MaxRegLines
    /\ tabs = NoTabs
    /\ view = NoView
    /\ app = NoApp
    /\ early = NoEarly

RegNext == ManagerCalls \/ Workers \/ Environment

\* One DockerLogManager, created empty.
RegSpec == RegInit /\ [][RegNext]_vars

(***************************************************************************)
(* LogTabs: src/src/shared/display/log_tabs.rs.  The tab bar of the log    *)
(* viewer: a Vec of titles and the 0-based index of the active one.  The   *)
(* fields call, arg and before record the latest call, its argument and    *)
(* the index it found.                                                     *)
(***************************************************************************)
\* Every Vec of titles LogTabs::new may be given.
TabTitles == UNION {[1..n -> Names] : n \in 0..MaxTabs}

\* LogTabs::new
NewTabs(titles) ==
    [titles |-> titles, index |-> 0, call |-> "new", arg |-> 0, before |-> 0]

\* LogTabs::next: the index it leaves.
next(t) ==
    IF t.titles # <<>> THEN (t.index + 1) % Len(t.titles) ELSE t.index

\* previous() that stays at the first tab instead of wrapping.
previous_saturating(t) ==
    IF t.titles = <<>> THEN t.index
    ELSE IF t.index > 0 THEN t.index - 1 ELSE 0

\* LogTabs::previous: the index it leaves.
previous(t) ==
    IF t.titles = <<>> THEN t.index
    ELSE IF t.index > 0 THEN t.index - 1 ELSE Len(t.titles) - 1

\* set_index() that stores the index without comparing it to the length.
set_index_unchecked(t, index) == index

\* LogTabs::set_index: the index it leaves.
set_index(t, index) ==
    IF index < Len(t.titles) THEN index ELSE t.index

\* LogTabs::get_active_tab_name: titles.get(index), None as <<>>.
get_active_tab_name(t) ==
    IF t.index < Len(t.titles) THEN t.titles[t.index + 1] ELSE <<>>

TabNext ==
    /\ tabs.call # "none"
    /\ tabs' = [tabs EXCEPT !.index = next(tabs), !.call = "next",
                            !.arg = 0, !.before = tabs.index]
    /\ UNCHANGED <<view, app, early, colls, sess, watchers, caller, snapshot, result, sessLeft, linesLeft>>

TabPrevious ==
    /\ tabs.call # "none"
    /\ tabs' = [tabs EXCEPT !.index = previous(tabs), !.call = "previous",
                            !.arg = 0, !.before = tabs.index]
    /\ UNCHANGED <<view, app, early, colls, sess, watchers, caller, snapshot, result, sessLeft, linesLeft>>

TabSetIndex(index) ==
    /\ tabs.call # "none"
    /\ tabs' = [tabs EXCEPT !.index = set_index(tabs, index), !.call = "set_index",
                            !.arg = index, !.before = tabs.index]
    /\ UNCHANGED <<view, app, early, colls, sess, watchers, caller, snapshot, result, sessLeft, linesLeft>>

TabsInit ==
    /\ colls = <<>>
    /\ sess = <<>>
    /\ watchers = <<>>
    /\ caller = Idle
    /\ snapshot = NoSnapshot
    /\ result = "none"
    /\ sessLeft = 0
    /\ linesLeft = 0
    /\ \E titles \in TabTitles : tabs = NewTabs(titles)
    /\ view = NoView
    /\ app = NoApp
    /\ early = NoEarly

TabsNext ==
    \/ TabNext
    \/ TabPrevious
    \/ \E index \in 0..(MaxTabs + 1) : TabSetIndex(index)

\* One LogTabs over any small Vec of titles; the engine is not running.
TabsSpec == TabsInit /\ [][TabsNext]_vars

(***************************************************************************)
(* LogView: src/src/shared/display/log_view.rs.  The scrollable list of    *)
(* the lines of one container: a VecDeque of entries (here their           *)
(* messages), its capacity, the scroll position and the follow mode.       *)
(* parsed_cache holds one slot per entry, FALSE while not rendered.  The   *)
(* fields call and before record the latest call and the scroll position   *)
(* it found.                                                               *)
(***************************************************************************)
\* usize::saturating_sub
saturating_sub(a, b) == IF a > b THEN a - b ELSE 0

min(a, b) == IF a < b THEN a ELSE b

\* LogView::new
NewView(max) ==
    [logs |-> <<>>, max_logs |-> max, scroll_position |-> 0, follow_mode |-> TRUE,
     parsed_cache |-> <<>>, call |-> "new", before |-> 0]

\* LogView::scroll_to_bottom
scroll_to_bottom(v) ==
    [v EXCEPT !.scroll_position = saturating_sub(Len(v.logs), 1)]

\* LogView::add_log: push, drop the oldest entry when over capacity, and
\* follow to the bottom in follow mode.
add_log(v, message) ==
    LET pushed == [v EXCEPT !.logs = Append(@, message),
                            !.parsed_cache = Append(@, FALSE)]
        trimmed == IF Len(pushed.logs) > pushed.max_logs
                   THEN [pushed EXCEPT !.logs = Tail(@),
                                       !.parsed_cache =
                                           IF @ # <<>> THEN Tail(@) ELSE @]
                   ELSE pushed
    IN  IF trimmed.follow_mode THEN scroll_to_bottom(trimmed) ELSE trimmed

\* LogView::scroll_up
scroll_up(v) ==
    IF v.scroll_position > 0
    THEN [v EXCEPT !.scroll_position = @ - 1, !.follow_mode = FALSE]
    ELSE v

\* scroll_down() that does not stop at the last line.
scroll_down_unbounded(v) ==
    [v EXCEPT !.scroll_position = @ + 1, !.follow_mode = FALSE]

\* LogView::scroll_down
scroll_down(v) ==
    IF v.scroll_position < saturating_sub(Len(v.logs), 1)
    THEN [v EXCEPT !.scroll_position = @ + 1, !.follow_mode = FALSE]
    ELSE v

\* LogView::page_up
page_up(v, visible_height) ==
    [v EXCEPT !.scroll_position = IF @ > visible_height
                                  THEN @ - visible_height ELSE 0,
              !.follow_mode = FALSE]

\* LogView::page_down
page_down(v, visible_height) ==
    [v EXCEPT !.scroll_position =
                  min(@ + visible_height, saturating_sub(Len(v.logs), 1)),
              !.follow_mode = FALSE]

\* LogView::enable_follow
enable_follow(v) == scroll_to_bottom([v EXCEPT !.follow_mode = TRUE])

\* LogView::scroll_to_top
scroll_to_top(v) == [v EXCEPT !.scroll_position = 0]

get_scroll_position(v) == v.scroll_position

get_log_count(v) == Len(v.logs)

\* LogView::set_scroll_position
set_scroll_position(v, position) ==
    [v EXCEPT !.scroll_position =
                  min(position, saturating_sub(Len(v.logs), 1))]

\* The messages add_log may be given.
Messages == {LineOf(k) : k \in 1..MaxMessages}

\* One call on the LogView: `after` is the view the call leaves.
ViewCall(name, after) ==
    /\ view.call # "none"
    /\ view' = [after EXCEPT !.call = name, !.before = view.scroll_position]
    /\ UNCHANGED <<tabs, app, early, colls, sess, watchers, caller, snapshot, result, sessLeft, linesLeft>>

ViewInit ==
    /\ colls = <<>>
    /\ sess = <<>>
    /\ watchers = <<>>
    /\ caller = Idle
    /\ snapshot = NoSnapshot
    /\ result = "none"
    /\ sessLeft = 0
    /\ linesLeft = 0
    /\ tabs = NoTabs
    /\ \E max \in 0..MaxViewLogs : view = NewView(max)
    /\ app = NoApp
    /\ early = NoEarly

ViewNext ==
    \/ \E message \in Messages : ViewCall("add_log", add_log(view, message))
    \/ ViewCall("scroll_up", scroll_up(view))
    \/ ViewCall("scroll_down", scroll_down(view))
    \/ \E h \in 0..MaxHeight : ViewCall("page_up", page_up(view, h))
    \/ \E h \in 0..MaxHeight : ViewCall("page_down", page_down(view, h))
    \/ ViewCall("scroll_to_top", scroll_to_top(view))
    \/ ViewCall("scroll_to_bottom", scroll_to_bottom(view))
    \/ \E position \in 0..(MaxViewLogs + 1) :
          ViewCall("set_scroll_position", set_scroll_position(view, position))
    \/ ViewCall("enable_follow", enable_follow(view))

\* One LogView of any small capacity; the engine is not running.
ViewSpec == ViewInit /\ [][ViewNext]_vars

(***************************************************************************)
(* Fair scheduling of the threads of the stand-alone watcher.  Every       *)
(* thread that can take a step of its own eventually takes it, and a join  *)
(* whose thread has ended returns.  Nothing obliges a container to print   *)
(* (ReadLine, ReadErr), the subprocess to end by itself (ProcExit) or the  *)
(* owner to make a call.                                                   *)
(***************************************************************************)
MainStep(s) ==
    s \in 1..Len(sess) /\ (Launch(s) \/ LaunchFail(s) \/ JoinStdout(s) \/ JoinStderr(s))

ReaderStep(s, st) ==
    s \in 1..Len(sess)
        /\ (ReadEof(s, st) \/ CheckRunning(s, st) \/ PushBack(s, st) \/ Evict(s, st))

SupStep(s) ==
    s \in 1..Len(sess) /\ (SupKill(s) \/ SupKillFail(s))

Fairness ==
    /\ WF_vars(StopJoin)
    /\ \A s \in 1..MaxSess :
          /\ WF_vars(MainStep(s))
          /\ WF_vars(SupStep(s))
          /\ \A st \in Streams : WF_vars(ReaderStep(s, st))

FairSpec == Init /\ [][Next]_vars /\ Fairness

\* The owner's own progress inside stop_all(), refresh and drop: the loop
\* over the watchers, each join once its thread has ended, and the return.
OwnerStep ==
    StopAllStop \/ StopAllJoin \/ StopAllReturn \/ WatchDiscovered \/ DropReturn

\* The manager under the same fair scheduling.
FairRegSpec == RegInit /\ [][RegNext]_vars /\ Fairness /\ WF_vars(OwnerStep)

(***************************************************************************)
(* Properties.                                                             *)
(***************************************************************************)
Watchers == 1..Len(colls)
Sessions == 1..Len(sess)

\* The sessions start() has spawned for watcher c.
SessionsOf(c) == {s \in Sessions : sess[s].coll = c}

StartedOnce(c) == Cardinality(SessionsOf(c)) = 1

ReaderExited(s, st) == sess[s].rd[st].pc \in {"none", "done"}
SupervisorExited(s) == sess[s].sup \in {"none", "done"}

\* C1 (as claimed): once the running flag of a watcher started once has been
\* set to false, no reader appends a line to its buffer any more.
C1_NoAppendOnceInactive ==
    [][\A c \in Watchers :
          (StartedOnce(c) /\ ~colls[c].running)
              => colls'[c].hist = colls[c].hist]_vars

\* C2 (as claimed): when stop() has returned for a watcher started once, its
\* stdout reader, its stderr reader and its supervisor have all exited.
C2_AllThreeExitedAtStopReturn ==
    \A c \in Watchers :
        (StartedOnce(c) /\ colls[c].stopped)
            => \A s \in SessionsOf(c) :
                  /\ ReaderExited(s, "stdout")
                  /\ ReaderExited(s, "stderr")
                  /\ SupervisorExited(s)

\* C3: under fair scheduling a stop() that is waiting in its join eventually
\* returns, unless the supervisor's kill failed.
C3_StopReturns ==
    (caller.op = "stop")
        ~> (caller.op = "idle" \/ \E s \in Sessions : sess[s].killFailed)

\* C3 witness: stop() is waiting while both readers block in a read of a
\* live subprocess, so that only the supervisor's kill can release them.
C3_Witness ==
    /\ caller.op = "stop"
    /\ sess[caller.h].proc = "alive"
    /\ sess[caller.h].sup = "poll"
    /\ \A st \in Streams : sess[caller.h].rd[st].pc = "read"
    /\ linesLeft = 0

\* C4: every snapshot get_logs() has returned holds at most max_logs lines.
C4_SnapshotWithinCapacity ==
    snapshot.c # 0 => Len(snapshot.lines) <= colls[snapshot.c].max_logs

\* C4 witness: a full snapshot was returned, and a reader now holds the
\* buffer over capacity, between its push_back and its pop_front.
C4_Witness ==
    /\ snapshot.c # 0
    /\ colls[snapshot.c].max_logs > 0
    /\ Len(snapshot.lines) = colls[snapshot.c].max_logs
    /\ colls[snapshot.c].locked
    /\ Len(colls[snapshot.c].logs) > colls[snapshot.c].max_logs

\* The k-th characters of the lines are strictly increasing: the lines of
\* one stream in the order the stream delivered them.
InStreamOrder(lines) ==
    \A i, j \in 1..Len(lines) : i < j => lines[i][1] < lines[j][1]

\* C5: when all N lines appended so far came from stdout, get_logs() returns
\* the last max_logs of them (all N when N <= max_logs), in stream order.
C5_LastLinesInOrder ==
    (snapshot.c # 0 /\ \A s \in SessionsOf(snapshot.c) : sess[s].rd["stderr"].n = 0)
        => LET appended == SubSeq(colls[snapshot.c].hist, 1, snapshot.seen)
           IN  /\ snapshot.lines = LastN(appended, colls[snapshot.c].max_logs)
               /\ InStreamOrder(appended)

\* C5 witness: capacity 2, lines "1", "2", "3" appended from stdout, and
\* get_logs() returned <<"2", "3">>.
C5_Witness ==
    /\ snapshot.c # 0
    /\ colls[snapshot.c].max_logs = 2
    /\ snapshot.seen = 3
    /\ snapshot.lines = <<LineOf(2), LineOf(3)>>
    /\ \A s \in SessionsOf(snapshot.c) : sess[s].rd["stderr"].n = 0

\* C6: once stop() has returned for a watcher started once, its buffer never
\* changes again and is never locked, so every later get_logs() returns the
\* same lines.
C6_BufferFrozenAfterStop ==
    [][\A c \in Watchers :
          (StartedOnce(c) /\ colls[c].stopped)
              => /\ colls'[c].logs = colls[c].logs
                 /\ ~colls'[c].locked]_vars

\* C6 witness: stop() has returned, lines had been collected, the container
\* has more to deliver, and get_logs() has returned the buffer since.
C6_Witness ==
    /\ colls[1].stopped
    /\ colls[1].logs # <<>>
    /\ linesLeft > 0
    /\ snapshot.c = 1
    /\ snapshot.lines = colls[1].logs
    /\ snapshot.seen = Len(colls[1].hist)

\* C7 (as claimed): when the subprocess of a started watcher could not be
\* launched, start() has returned an error, the flag is false and the
\* buffer is empty.
C7_LaunchFailureReported ==
    \A s \in Sessions :
        (sess[s].main = "panicked" /\ colls[sess[s].coll].handle = s)
            => /\ result = "err"
               /\ ~colls[sess[s].coll].running
               /\ colls[sess[s].coll].logs = <<>>

\* The names `docker ps` printed: its lines trimmed, the empty ones dropped.
RECURSIVE DiscoveredNames(_)
DiscoveredNames(lines) ==
    IF lines = <<>> THEN <<>>
    ELSE (IF Trim(Head(lines)) # <<>> THEN <<Trim(Head(lines))>> ELSE <<>>)
             \o DiscoveredNames(Tail(lines))

\* The identities the manager holds, in Vec order.
HeldNames(ws, cs) == [i \in 1..Len(ws) |-> cs[ws[i]].container_name]

\* A held watcher is still collecting: flag set, handle kept.
Collecting(c) == colls[c].running /\ colls[c].handle # 0

\* The step in which a failed discovery returns its error.
DiscoveryFailed == result # "err" /\ result' = "err"

\* The step in which stop_all(), called by the owner, returns.
StopAllReturned ==
    caller.op = "stop_all" /\ caller.then = "return" /\ caller'.op = "idle"

\* The step in which a successful start_watching_all_containers returns.
RefreshReturned ==
    caller.op = "stop_all" /\ caller.then = "watch" /\ caller'.op = "idle"

\* C8 (as claimed): a failed discovery leaves the manager empty.
C8_FailedDiscoveryLeavesEmpty ==
    [][DiscoveryFailed => watcher_count' = 0]_vars

\* C8 (amended): a failed discovery returns its error and leaves the manager
\* as it was: the same watchers are held, in the same state.
C8_FailedDiscoveryKeepsSet ==
    [][DiscoveryFailed
          => /\ watchers' = watchers
             /\ colls' = colls
             /\ sess' = sess]_vars

\* C8 witness: the discovery failed on a manager that holds a watcher which
\* is still collecting.
C8_Witness ==
    /\ result = "err"
    /\ watcher_count > 0
    /\ \E i \in 1..Len(watchers) : Collecting(watchers[i])

\* C9 (as claimed): when stop_all() returns the manager holds no watcher.
C9_StopAllClears ==
    [][StopAllReturned
          => /\ watcher_count' = 0
             /\ \A index \in 0..MaxSess : get_watcher(index)' = None]_vars

\* C9 (amended): when stop_all() returns every held watcher has been stopped
\* (flag false, handle taken, outer thread and readers ended) and the Vec is
\* unchanged, so watcher_count() and get_watcher() answer as before.
C9_StopAllStopsAndKeeps ==
    [][StopAllReturned
          => /\ watchers' = watchers
             /\ watcher_count' = watcher_count
             /\ \A i \in 1..Len(watchers) :
                   LET c == watchers[i]
                   IN  /\ ~colls[c].running
                       /\ colls[c].handle = 0
                       /\ colls' = colls
                       /\ \A s \in SessionsOf(c) :
                             /\ MainFinished(s)
                             /\ ReaderExited(s, "stdout")
                             /\ ReaderExited(s, "stderr")]_vars

\* C9 witness: stop_all() is about to return, having stopped and joined two
\* held watchers.
C9_Witness ==
    /\ caller.op = "stop_all"
    /\ caller.then = "return"
    /\ caller.h = 0
    /\ caller.i > Len(watchers)
    /\ watcher_count = 2
    /\ \A i \in 1..Len(watchers) : colls[watchers[i]].stopped

\* C10: when a successful start_watching_all_containers / refresh returns,
\* the manager holds one new, started watcher per non-empty discovered line,
\* in discovery order, and nothing else.
C10_HeldAreDiscovered ==
    [][RefreshReturned
          => /\ HeldNames(watchers', colls') = DiscoveredNames(caller.out)
             /\ watcher_count' = NonEmptyLines(caller.out)
             /\ \A i \in 1..Len(watchers') :
                   /\ watchers'[i] > Len(colls)
                   /\ colls'[watchers'[i]].running
                   /\ \A j \in 1..Len(watchers') :
                         watchers'[i] = watchers'[j] => i = j]_vars

\* C10 witness: a manager that held a watcher of container A has been
\* refreshed while only B was running: it holds one watcher, of B.
C10_Witness ==
    /\ caller.op = "idle"
    /\ result = "ok"
    /\ Len(colls) = 2
    /\ colls[1].container_name = NameA
    /\ colls[1].stopped
    /\ watcher_count = 1
    /\ get_watcher(0) = 2
    /\ colls[2].container_name = NameB

\* C11: stop() is idempotent.  When a stop() returns, the watcher has no
\* handle and its flag is false, and no watcher refers to the thread just
\* joined: a second stop() finds handle None, which is the branch that
\* changes nothing and joins nothing.  A watcher never started has no
\* handle either.
C11_SecondStopIsNoop ==
    [][/\ \A c \in Watchers : SessionsOf(c) = {} => colls[c].handle = 0
       /\ (caller.op = "stop" /\ caller'.op = "idle")
             => /\ colls'[caller.c].handle = 0
                /\ ~colls'[caller.c].running
                /\ colls'[caller.c].logs = colls[caller.c].logs
                /\ sess' = sess
                /\ \A c \in Watchers : colls'[c].handle # caller.h]_vars

\* C11 witness: stop() has returned on a watcher that was restarted before,
\* and the owner is free to call stop() again.
C11_Witness ==
    /\ caller.op = "idle"
    /\ colls[1].stopped
    /\ colls[1].handle = 0
    /\ ~colls[1].running
    /\ Cardinality(SessionsOf(1)) = 2
    /\ MainFinished(2)

\* C12 (as claimed): when stop() has returned for a watcher started once,
\* its subprocess is no longer running (a failed kill() set aside).
C12_SubprocessDeadAtStopReturn ==
    \A c \in Watchers :
        (StartedOnce(c) /\ colls[c].stopped)
            => \A s \in SessionsOf(c) :
                  sess[s].killFailed \/ sess[s].proc # "alive"

\* C13 (as claimed): under fair scheduling a stop() that is waiting in its
\* join returns even when the supervisor's kill() has failed.
C13_StopReturnsDespiteKillFailure ==
    (caller.op = "stop" /\ \E s \in Sessions : sess[s].killFailed)
        ~> (caller.op = "idle")

DropCompleted ==
    caller.op = "stop_all" /\ caller.then = "drop" /\ caller'.op = "dropped"

C15_NoRestart ==
    \A c \in Watchers :
        /\ colls[c].stopped => ~colls[c].running
        /\ Cardinality({s \in SessionsOf(c) : sess[s].proc # "none"}) <= 1

\* C16: when start_watching_all_containers / refresh returns after a
\* `docker ps` that listed no container, the manager holds nothing, and
\* every watcher it held before is stopped: flag false, handle taken, outer
\* thread and readers ended.
C16_EmptyDiscoveryEmpties ==
    [][(RefreshReturned /\ DiscoveredNames(caller.out) = <<>>)
          => /\ result' = "ok"
             /\ watcher_count' = 0
             /\ \A index \in 0..MaxSess : get_watcher(index)' = None
             /\ Len(colls') = Len(colls)
             /\ \A i \in 1..Len(watchers) :
                   LET c == watchers[i]
                   IN  /\ ~colls'[c].running
                       /\ colls'[c].handle = 0
                       /\ \A s \in SessionsOf(c) :
                             /\ MainFinished(s)
                             /\ ReaderExited(s, "stdout")
                             /\ ReaderExited(s, "stderr")]_vars

\* C16 witness: a manager that held two watchers has been refreshed while
\* no container was running: both are stopped and it holds none.
C16_Witness ==
    /\ caller.op = "idle"
    /\ result = "ok"
    /\ watcher_count = 0
    /\ Len(colls) = 2
    /\ \A c \in Watchers : colls[c].stopped /\ ~colls[c].running

\* C17: get_watcher(index) is a held watcher exactly when index is below
\* watcher_count(), and None otherwise; positions follow the order in which
\* the watchers were pushed (a later watcher has a later identity), no
\* watcher is at two positions, and watcher_count() is the number of
\* watchers held.
C17_GetByPosition ==
    /\ \A index \in 0..(MaxSess + 1) :
          /\ (index < watcher_count) <=> (get_watcher(index) # None)
          /\ index < watcher_count
                => get_watcher(index) \in Watchers /\ Held(get_watcher(index))
    /\ \A i, j \in 0..MaxSess :
          (i < j /\ j < watcher_count) => get_watcher(i) < get_watcher(j)
    /\ watcher_count = Cardinality({c \in Watchers : Held(c)})

\* C17 witness: after a refresh replaced the first watcher, position 0
\* answers with the second watcher ever created and position 1 with None.
C17_Witness ==
    /\ watcher_count = 1
    /\ Len(colls) = 2
    /\ get_watcher(0) = 2
    /\ get_watcher(1) = None
    /\ ~Held(1)

\* The step in which start_watching_container(name) returns.
WatchContainerReturned ==
    caller.op = "idle" /\ caller'.op = "idle" /\ watchers' # watchers

\* C18: start_watching_container(name) on a manager holding n watchers
\* leaves it holding n + 1: the watchers at positions 0..n-1 are the same
\* and unchanged, and position n is one new watcher of `name`, started,
\* with an empty buffer and the default capacity.
C18_WatchContainerAppendsOne ==
    [][WatchContainerReturned
          => /\ watchers' = Append(watchers, Len(colls) + 1)
             /\ \A index \in 0..MaxSess :
                   index < watcher_count => get_watcher(index)' = get_watcher(index)
             /\ Len(colls') = Len(colls) + 1
             /\ \A c \in Watchers : colls'[c] = colls[c]
             /\ Len(sess') = Len(sess) + 1
             /\ \A s \in Sessions : sess'[s] = sess[s]
             /\ colls'[Len(colls) + 1].container_name \in Names
             /\ colls'[Len(colls) + 1].running
             /\ colls'[Len(colls) + 1].handle = Len(sess) + 1
             /\ colls'[Len(colls) + 1].logs = <<>>
             /\ colls'[Len(colls) + 1].max_logs = DefaultMaxLogs
             /\ sess'[Len(sess) + 1] = NewSession(Len(colls) + 1)
             /\ result' = "ok"]_vars

\* C18 witness: a second watcher has been added to a manager whose first
\* watcher has already collected a line and is still collecting.
C18_Witness ==
    /\ caller.op = "idle"
    /\ result = "ok"
    /\ watcher_count = 2
    /\ colls[get_watcher(0)].logs # <<>>
    /\ Collecting(get_watcher(0))
    /\ colls[get_watcher(1)].container_name = NameA
    /\ sess[colls[get_watcher(1)].handle].main = "spawn"

\* C19: until start() is called on it, a constructed watcher has its flag
\* false, an empty buffer, no handle, the name and capacity it was given,
\* and no thread or subprocess exists; get_logs() on it returns nothing.
\* A manager that was given nothing holds nothing.
C19_NewWatcherIsIdle ==
    result = "none"
        => /\ sess = <<>>
           /\ \A c \in Watchers :
                 /\ ~colls[c].running
                 /\ colls[c].logs = <<>>
                 /\ colls[c].hist = <<>>
                 /\ colls[c].handle = 0
                 /\ ~colls[c].locked
                 /\ colls[c].container_name = NameA
                 /\ colls[c].max_logs \in 0..MaxCap
                 /\ snapshot.c = c => snapshot.lines = <<>>
           /\ watcher_count = 0
           /\ get_watcher(0) = None

\* C19 witness: get_logs() and stop() have been called on a watcher of
\* capacity MaxCap that was never started.
C19_Witness ==
    /\ result = "none"
    /\ caller.op = "idle"
    /\ snapshot.c = 1
    /\ colls[1].max_logs = MaxCap
    /\ ENABLED StopNoop(1)

\* C20: on a LogTabs with n >= 1 titles, next() leaves (index + 1) mod n,
\* previous() leaves (index - 1) mod n (0 wraps to n - 1) and set_index(i)
\* leaves i when i < n and the old index otherwise; so the index stays
\* below n, and a previous() that follows a next() restores the index the
\* next() found.  No call changes the titles.
C20_TabIndexWraps ==
    [][Len(tabs.titles) >= 1
          => /\ tabs'.titles = tabs.titles
             /\ tabs.index < Len(tabs.titles)
             /\ tabs'.index < Len(tabs.titles)
             /\ tabs'.call = "next"
                   => tabs'.index = (tabs.index + 1) % Len(tabs.titles)
             /\ tabs'.call = "previous"
                   => tabs'.index
                        = (tabs.index + Len(tabs.titles) - 1) % Len(tabs.titles)
             /\ tabs'.call = "set_index"
                   => tabs'.index = IF tabs'.arg < Len(tabs.titles)
                                    THEN tabs'.arg ELSE tabs.index
             /\ (tabs.call = "next" /\ tabs'.call = "previous")
                   => tabs'.index = tabs.before]_vars

\* C20 witness: previous() on the first of three tabs has wrapped to the
\* last one.
C20_Witness ==
    /\ Len(tabs.titles) = 3
    /\ tabs.call = "previous"
    /\ tabs.before = 0
    /\ tabs.index = 2
    /\ get_active_tab_name(tabs) = tabs.titles[3]

\* C21: on a LogTabs with no title, whatever calls have been made, the
\* index is 0 and get_active_tab_name() is None.
C21_EmptyTabsStayAtZero ==
    tabs.titles = <<>>
        => /\ tabs.index = 0
           /\ tabs.before = 0
           /\ get_active_tab_name(tabs) = <<>>

\* C21 witness: set_index with an index past every position was the latest
\* call on a LogTabs with no title.
C21_Witness ==
    /\ tabs.titles = <<>>
    /\ tabs.call = "set_index"
    /\ tabs.arg = MaxTabs + 1
    /\ tabs.index = 0

\* C22: whatever calls have been made on a LogView, scroll_position is at
\* most max(get_log_count() - 1, 0) and get_log_count() is at most
\* max_logs; scroll_up at position 0 leaves it at 0, and scroll_down moves
\* by exactly one when the position is not at the last line.
C22_ScrollWithinLogs ==
    [][/\ get_scroll_position(view) <= saturating_sub(get_log_count(view), 1)
       /\ get_scroll_position(view') <= saturating_sub(get_log_count(view'), 1)
       /\ get_log_count(view) <= view.max_logs
       /\ get_log_count(view') <= view'.max_logs
       /\ (view'.call = "scroll_up" /\ view.scroll_position = 0)
             => view'.scroll_position = 0
       /\ (view'.call = "scroll_down"
             /\ view.scroll_position < get_log_count(view) - 1)
             => view'.scroll_position = view.scroll_position + 1]_vars

\* C22 witness: a full LogView that had been scrolled to the top has taken
\* one more line, dropping its oldest, and then a scroll_down by one.
C22_Witness ==
    /\ view.max_logs = MaxViewLogs
    /\ get_log_count(view) = MaxViewLogs
    /\ ~view.follow_mode
    /\ view.call = "scroll_down"
    /\ view.before = 0
    /\ view.scroll_position = 1
    /\ view.logs[1] # view.logs[2]

\* The stream a buffer entry came from, by its prefix, and the position of
\* its line in that stream (LineOf).
FromStream(entry) ==
    IF Len(entry) > Len(ErrorPrefix)
          /\ SubSeq(entry, 1, Len(ErrorPrefix)) = ErrorPrefix
    THEN "stderr" ELSE "stdout"

LineNo(entry) == entry[Len(entry)] - 48

OfStream(entries, st) == SelectSeq(entries, LAMBDA e : FromStream(e) = st)

InSourceOrder(entries) ==
    \A i, j \in 1..Len(entries) : i < j => LineNo(entries[i]) < LineNo(entries[j])

IsSuffix(a, b) ==
    Len(a) <= Len(b) /\ a = SubSeq(b, Len(b) - Len(a) + 1, Len(b))

C24_ReadErrorEndsStream ==
    [][\A s \in Sessions : \A st \in Streams :
          /\ (sess[s].rd[st].pc = "check" /\ sess[s].rd[st].item.kind = "err")
                => sess'[s].rd[st].pc \in {"check", "done"}
          /\ \A i \in 1..Len(OfStream(colls'[sess[s].coll].hist, st)) :
                LineNo(OfStream(colls'[sess[s].coll].hist, st)[i]) = i]_vars

\* C25: while the flag of a watcher started once is true (it has then been
\* true ever since start()), its supervisor has not ended and no kill() of
\* its subprocess has been issued, successful or failed.
C25_NoKillWhileRunning ==
    \A c \in Watchers :
        (StartedOnce(c) /\ colls[c].running)
            => \A s \in SessionsOf(c) :
                  /\ sess[s].proc # "killed"
                  /\ ~sess[s].killFailed
                  /\ sess[s].sup # "done"

\* C25 witness: the watcher is running, both readers have ended because the
\* subprocess ended by itself, and the supervisor is still polling.
C25_Witness ==
    /\ colls[1].running
    /\ StartedOnce(1)
    /\ sess[1].proc = "exited"
    /\ sess[1].sup = "poll"
    /\ sess[1].main = "done"
    /\ colls[1].hist # <<>>

\* C26: under fair scheduling, whenever the flag of the watcher is false
\* while its subprocess has been launched and is still running, the
\* supervisor gets to its kill(): the subprocess is eventually not running
\* any more, unless that kill() failed.
C26_FlagFalseLeadsToKill ==
    (\E s \in Sessions : ~colls[sess[s].coll].running /\ sess[s].proc = "alive")
        ~> (\A s \in Sessions : sess[s].proc # "alive" \/ sess[s].killFailed)

\* C26 witness: stop() has returned, both readers having ended on a fresh
\* line each, while the subprocess is alive and the supervisor has yet to
\* poll.
C26_Witness ==
    /\ colls[1].stopped
    /\ caller.op = "idle"
    /\ sess[1].proc = "alive"
    /\ sess[1].sup = "poll"
    /\ \A st \in Streams : sess[1].rd[st].pc = "done"

\* The lines a stream may deliver.
StreamLines == {LineOf(k) : k \in 1..MaxLines}

\* C30: a reader that appends stores "ERROR: " followed by the line when it
\* reads stderr and the line unchanged when it reads stdout; so every
\* entry of the buffer is a stdout line as read or a stderr line behind the
\* prefix.
C30_StderrTagged ==
    [][\A s \in Sessions : \A st \in Streams :
          /\ (sess[s].rd[st].pc = "push" /\ sess'[s].rd[st].pc = "evict")
                => LET line == sess[s].rd[st].item.line
                       entry == IF st = "stderr" THEN ErrorPrefix \o line ELSE line
                   IN  /\ colls'[sess[s].coll].logs
                             = Append(colls[sess[s].coll].logs, entry)
                       /\ FromStream(entry) = st
          /\ \A i \in 1..Len(colls'[sess[s].coll].logs) :
                LET e == colls'[sess[s].coll].logs[i]
                IN  \/ e \in StreamLines
                    \/ \E line \in StreamLines : e = ErrorPrefix \o line]_vars

\* C30 witness: the buffer holds a stderr line behind its prefix, then a
\* stdout line as it was read.
C30_Witness ==
    /\ Len(colls[1].logs) = 2
    /\ colls[1].logs[1] = ErrorPrefix \o LineOf(1)
    /\ colls[1].logs[2] = LineOf(1)
    /\ ~colls[1].locked

\* A launch has failed in session s: its outer thread panicked.
LaunchFailed(s) == sess[s].main = "panicked"

\* C28: a launch failure stays local.  The step in which the outer thread of
\* one watcher panics changes no watcher, no other thread group, nothing the
\* manager holds and no result; and under fair scheduling a stop_all()
\* entered by a manager holding a watcher whose launch failed returns,
\* unless a kill() failed.
C28_LaunchFailureStaysLocal ==
    /\ [][\A s \in Sessions :
              (~LaunchFailed(s) /\ LaunchFailed(s)')
                  => /\ colls' = colls
                     /\ watchers' = watchers
                     /\ result' = result
                     /\ caller' = caller
                     /\ \A t \in Sessions : t # s => sess'[t] = sess[t]]_vars
    /\ (caller.op = "stop_all" /\ \E s \in Sessions : LaunchFailed(s))
          ~> (caller.op # "stop_all" \/ \E s \in Sessions : sess[s].killFailed)

\* C28 witness: stop_all() has returned on a manager holding two watchers;
\* the launch failed for the first, and the second was launched and
\* collected a line.
C28_Witness ==
    /\ caller.op = "idle"
    /\ watcher_count = 2
    /\ \A s \in SessionsOf(get_watcher(0)) : LaunchFailed(s)
    /\ \A s \in SessionsOf(get_watcher(1)) : sess[s].main = "done"
    /\ colls[get_watcher(1)].hist # <<>>
    /\ \A i \in 1..Len(watchers) : colls[watchers[i]].stopped

\* C27: a watcher the manager has let go of (in a refresh, or with the
\* manager itself) was stopped first: its flag is false, its handle taken,
\* its outer thread and both readers ended.  The replacements are created
\* in the step that lets the old ones go, so no reader of an old watcher is
\* live together with a reader of a new one.
C27_OldStoppedBeforeNew ==
    \A c \in Watchers :
        ~Held(c)
            => /\ colls[c].stopped
               /\ ~colls[c].running
               /\ colls[c].handle = 0
               /\ \A s \in SessionsOf(c) :
                     /\ MainFinished(s)
                     /\ ReaderExited(s, "stdout")
                     /\ ReaderExited(s, "stderr")

\* C27 witness: a refresh replaced a watcher that had collected a line by
\* a new one, whose readers are now blocked in their reads.
C27_Witness ==
    /\ Len(colls) = 2
    /\ ~Held(1)
    /\ Held(2)
    /\ colls[1].hist # <<>>
    /\ \A s \in SessionsOf(2) : \A st \in Streams : sess[s].rd[st].pc = "read"

\* C29: under the manager's operations no watcher is started twice, and a
\* flag that is false never becomes true again: a watcher is created
\* running by the call that constructs it, and stop is the only change.
C29_StartedAtMostOnce ==
    [][/\ \A c \in Watchers :
             /\ Cardinality(SessionsOf(c)) = 1
             /\ ~colls[c].running => ~colls'[c].running
             /\ colls[c].stopped => ~colls'[c].running
       /\ \A c \in (1..Len(colls')) \ Watchers : colls'[c].running
       /\ \A s \in Sessions : sess'[s].coll = sess[s].coll
       /\ \A s \in (1..Len(sess')) \ Sessions : sess'[s].coll \notin Watchers]_vars

\* C29 witness: the manager was refreshed after a stop_all(): the first
\* watcher stays stopped and a second one is running.
C29_Witness ==
    /\ Len(colls) = 2
    /\ colls[1].stopped
    /\ ~colls[1].running
    /\ ~Held(1)
    /\ colls[2].running
    /\ colls[1].container_name = colls[2].container_name

\* What reader st of session s has appended, plus the line it holds past
\* its flag check and is about to append.
AppendedOrHeld(s, st) ==
    Len(OfStream(colls[sess[s].coll].hist, st))
        + (IF sess[s].rd[st].pc = "push" THEN 1 ELSE 0)

\* C33: in a watcher started once, while the flag is false a reader appends
\* nothing but the line it already holds past its flag check: for each
\* reader the lines appended plus the line held never grow.  So after
\* stop() has written false each reader appends at most one line, and the
\* buffer receives at most two.
C33_AtMostOneLatePerReader ==
    [][\A c \in Watchers : \A s \in SessionsOf(c) : \A st \in Streams :
          (StartedOnce(c) /\ ~colls[c].running)
              => /\ AppendedOrHeld(s, st)' <= AppendedOrHeld(s, st)
                 /\ Len(colls'[c].hist) <= Len(colls[c].hist) + 1
                 /\ ~colls'[c].running]_vars

\* C33 witness: stop() has written false and is waiting, and each of the two
\* readers holds a line past its flag check: two lines are yet to be
\* appended.
C33_Witness ==
    /\ caller.op = "stop"
    /\ ~colls[1].running
    /\ \A st \in Streams : sess[1].rd[st].pc = "push"

\* The readers that hold the buffer lock of watcher c.
LockHolders(c) ==
    {<<s, st>> \in Sessions \X Streams :
        sess[s].coll = c /\ sess[s].rd[st].pc = "evict"}

\* Reader st of session s is blocked in a read of its live subprocess: it
\* waits for the container, not for a lock or for another thread.
BlockedInRead(s, st) ==
    sess[s].rd[st].pc = "read" /\ sess[s].proc = "alive"

C35_NoReaderLeftAfterStop ==
    \A c \in Watchers :
        (caller.op = "idle" /\ colls[c].stopped /\ ~colls[c].running
              /\ colls[c].handle = 0)
            => \A s \in SessionsOf(c) :
                  /\ ReaderExited(s, "stdout")
                  /\ ReaderExited(s, "stderr")

\* C36: the flag is written by start() (to true) and by stop() (to false)
\* and by no thread of the watcher.  When the subprocess has ended by
\* itself the flag is still as start() left it and the supervisor is still
\* polling; and a join whose outer thread has ended returns whatever the
\* supervisor does.
C36_FlagWrittenByOwnerOnly ==
    [][\A c \in Watchers :
          /\ colls'[c].running # colls[c].running
                => /\ caller.op = "idle"
                   /\ colls'[c].running
                         => caller'.op = "idle" /\ Len(sess') = Len(sess) + 1
                   /\ ~colls'[c].running => caller'.op = "stop" /\ caller'.c = c
          /\ \A s \in SessionsOf(c) :
                (sess[s].proc = "exited" /\ colls[c].running)
                    => sess[s].sup = "poll" /\ sess'[s].sup = "poll"
          /\ (caller.op = "stop" /\ caller.c = c /\ MainFinished(caller.h))
                => ENABLED StopJoin]_vars

\* C36 witness: the subprocess ended by itself, both readers ended at the
\* end of their streams, stop() was called and has returned, and the
\* supervisor has yet to see the flag.
C36_Witness ==
    /\ caller.op = "idle"
    /\ colls[1].stopped
    /\ sess[1].proc = "exited"
    /\ sess[1].main = "done"
    /\ sess[1].sup = "poll"
    /\ colls[1].hist = <<>>

\* One DockerLogManager, created empty, beside one DockerLogWatcher that is
\* created and never started.
FrameInit ==
    /\ colls = <<NewWatcher(NameA, DefaultMaxLogs)>>
    /\ sess = <<>>
    /\ watchers = <<>>
    /\ caller = Idle
    /\ snapshot = NoSnapshot
    /\ result = "none"
    /\ sessLeft = MaxSess
    /\ linesLeft = MaxRegLines
    /\ tabs = NoTabs
    /\ view = NoView
    /\ app = NoApp
    /\ early = NoEarly

FrameNext == RegNext \/ StopNoop(1)

FrameSpec == FrameInit /\ [][FrameNext]_vars

\* Every watcher the manager holds has been stopped: its stop() returned and
\* it was not started since.
AllHeldStopped ==
    \A i \in 1..Len(watchers) :
        colls[watchers[i]].stopped /\ colls[watchers[i]].handle = 0

\* C37: stop() on a watcher that was never started finds no handle and
\* changes nothing: the watcher is as new() made it, with the flag false,
\* the buffer empty and no thread group, and only the branch of stop() that
\* joins nothing can be taken.  stop_all() on a manager whose watchers are
\* all stopped changes nothing: while it runs the Vec and every held
\* watcher stay as they are, nothing is launched and nothing is joined.
C37_StopOfStoppedChangesNothing ==
    [][/\ \A c \in Watchers :
             SessionsOf(c) = {}
                 => /\ colls[c] = NewWatcher(colls[c].container_name, colls[c].max_logs)
                    /\ colls'[c] = colls[c]
                    /\ (caller.op = "idle" /\ ~Held(c)) => ENABLED StopNoop(c)
       /\ (caller.op = "stop_all" /\ caller.then = "return" /\ caller.h = 0
               /\ AllHeldStopped)
             => /\ watchers' = watchers
                /\ \A i \in 1..Len(watchers) : colls'[watchers[i]] = colls[watchers[i]]
                /\ Len(sess') = Len(sess)
                /\ caller'.h = 0
                /\ caller'.op \in {"stop_all", "idle"}]_vars

\* C37 witness: stop_all() has been called on a manager that holds two
\* stopped watchers and is about to look at the first, while the watcher
\* that was never started is as new() made it.
C37_Witness ==
    /\ caller.op = "stop_all"
    /\ caller.then = "return"
    /\ caller.i = 1
    /\ caller.h = 0
    /\ watcher_count = 2
    /\ AllHeldStopped
    /\ SessionsOf(1) = {}
    /\ colls[1] = NewWatcher(NameA, DefaultMaxLogs)

(***************************************************************************)
(* The earlier watcher variant: src/dprs/src/docker_log_watcher.rs.  A     *)
(* watcher is a Vec of lines and a running flag that new() sets to true;   *)
(* start_watching() loads the existing lines and spawns one thread that    *)
(* launches `docker logs --follow` and reads its stdout.  There is no      *)
(* supervisor and nothing kills the subprocess.  The manager keeps the     *)
(* watchers and the join handles of their threads in two Vecs.  The state  *)
(* is the record `early`: objs are the watchers constructed so far and     *)
(* threads the threads spawned so far, both by identity.                   *)
(***************************************************************************)
MaxEarlyWatchers == 2   \* watchers the earlier manager starts during one run
MaxEarlyLines == 2      \* lines delivered to the earlier manager's watchers

\* What `docker logs --tail 100` may print when a watcher is started.
ExistingLogs == {<<>>, <<LineOf(0)>>}

\* DockerLogManager::new of the earlier variant.
NewEarly ==
    [pc |-> "idle", objs |-> <<>>, watchers |-> <<>>, handles |-> <<>>,
     threads |-> <<>>, i |-> 0, h |-> 0, then |-> "", out |-> 0,
     startsLeft |-> MaxEarlyWatchers, linesLeft |-> MaxEarlyLines]

EarlyThreads == 1..Len(early.threads)

\* The watcher thread launches `docker logs --follow --tail 0`.
EarlyLaunch(t) ==
    /\ early.threads[t].pc = "spawn"
    /\ early' = [early EXCEPT !.threads[t].pc = "read", !.threads[t].proc = "alive"]
    /\ UNCHANGED <<tabs, view, app, colls, sess, watchers, caller, snapshot, result, sessLeft, linesLeft>>

\* The launch fails: the thread prints the error and returns.
EarlyLaunchFail(t) ==
    /\ early.threads[t].pc = "spawn"
    /\ early' = [early EXCEPT !.threads[t].pc = "done"]
    /\ UNCHANGED <<tabs, view, app, colls, sess, watchers, caller, snapshot, result, sessLeft, linesLeft>>

\* The container prints a line and the blocked lines() yields it.
EarlyReadLine(t) ==
    /\ early.threads[t].pc = "read"
    /\ early.threads[t].proc = "alive"
    /\ early.linesLeft > 0
    /\ early' = [early EXCEPT !.threads[t].pc = "check",
                              !.threads[t].line = LineOf(early.linesLeft),
                              !.linesLeft = @ - 1]
    /\ UNCHANGED <<tabs, view, app, colls, sess, watchers, caller, snapshot, result, sessLeft, linesLeft>>

\* lines() yields Err: `if let Ok(line)` skips the body, flag check
\* included, and the loop goes back to reading.
EarlyReadErr(t) ==
    /\ early.threads[t].pc = "read"
    /\ early.threads[t].proc = "alive"
    /\ early.linesLeft > 0
    /\ early' = [early EXCEPT !.linesLeft = @ - 1]
    /\ UNCHANGED <<tabs, view, app, colls, sess, watchers, caller, snapshot, result, sessLeft, linesLeft>>

\* The subprocess has ended: lines() ends and the thread returns.
EarlyReadEof(t) ==
    /\ early.threads[t].pc = "read"
    /\ early.threads[t].proc = "exited"
    /\ early' = [early EXCEPT !.threads[t].pc = "done"]
    /\ UNCHANGED <<tabs, view, app, colls, sess, watchers, caller, snapshot, result, sessLeft, linesLeft>>

\* With a line in hand the thread looks at the flag: break when false.
EarlyCheck(t) ==
    /\ early.threads[t].pc = "check"
    /\ early' = [early EXCEPT !.threads[t].pc =
                      IF early.objs[early.threads[t].obj].running THEN "push" ELSE "done"]
    /\ UNCHANGED <<tabs, view, app, colls, sess, watchers, caller, snapshot, result, sessLeft, linesLeft>>

\* The thread pushes the line on the watcher's Vec.
EarlyPush(t) ==
    /\ early.threads[t].pc = "push"
    /\ early' = [early EXCEPT !.objs[early.threads[t].obj].log_lines =
                                  Append(@, early.threads[t].line),
                              !.threads[t].pc = "read"]
    /\ UNCHANGED <<tabs, view, app, colls, sess, watchers, caller, snapshot, result, sessLeft, linesLeft>>

\* `docker logs --follow` ends by itself: the container stopped.
EarlyProcExit(t) ==
    /\ early.threads[t].proc = "alive"
    /\ early' = [early EXCEPT !.threads[t].proc = "exited"]
    /\ UNCHANGED <<tabs, view, app, colls, sess, watchers, caller, snapshot, result, sessLeft, linesLeft>>

\* The first loop of stop_all(): stop_watching() on every held watcher.
EarlyFlagsCleared ==
    [o \in 1..Len(early.objs) |->
        IF \E k \in 1..Len(early.watchers) : early.watchers[k] = o
        THEN [early.objs[o] EXCEPT !.running = FALSE]
        ELSE early.objs[o]]

\* stop_all() called by the owner: the flags are cleared, the joins follow.
EarlyStopAllCall ==
    /\ early.pc = "idle"
    /\ early' = [early EXCEPT !.pc = "stop_all", !.then = "return",
                              !.objs = EarlyFlagsCleared]
    /\ UNCHANGED <<tabs, view, app, colls, sess, watchers, caller, snapshot, result, sessLeft, linesLeft>>

\* start_watching_all_containers / refresh: `docker ps` failed.
EarlyDiscoveryFails ==
    /\ early.pc = "idle"
    /\ result' = "err"
    /\ UNCHANGED <<tabs, view, app, early, colls, sess, watchers, caller, snapshot, sessLeft, linesLeft>>

\* start_watching_all_containers / refresh: `docker ps` printed n
\* containers; the call enters stop_all().
EarlyDiscoveryOk(n) ==
    /\ early.pc = "idle"
    /\ n <= early.startsLeft
    /\ early' = [early EXCEPT !.pc = "stop_all", !.then = "watch", !.out = n,
                              !.objs = EarlyFlagsCleared]
    /\ UNCHANGED <<tabs, view, app, colls, sess, watchers, caller, snapshot, result, sessLeft, linesLeft>>

\* stop_all(): handles.pop() hands over the next handle to join.
EarlyPop ==
    /\ early.pc = "stop_all"
    /\ early.h = 0
    /\ early.handles # <<>>
    /\ early' = [early EXCEPT !.h = early.handles[Len(early.handles)],
                              !.handles = SubSeq(@, 1, Len(@) - 1)]
    /\ UNCHANGED <<tabs, view, app, colls, sess, watchers, caller, snapshot, result, sessLeft, linesLeft>>

\* stop_all(): handle.join() returns, the thread has ended.
EarlyJoin ==
    /\ early.pc = "stop_all"
    /\ early.h # 0
    /\ early.threads[early.h].pc = "done"
    /\ early' = [early EXCEPT !.h = 0]
    /\ UNCHANGED <<tabs, view, app, colls, sess, watchers, caller, snapshot, result, sessLeft, linesLeft>>

\* stop_all() returns to the owner.
EarlyStopAllReturn ==
    /\ early.pc = "stop_all"
    /\ early.h = 0
    /\ early.handles = <<>>
    /\ early.then = "return"
    /\ early' = [early EXCEPT !.pc = "idle", !.then = ""]
    /\ UNCHANGED <<tabs, view, app, colls, sess, watchers, caller, snapshot, result, sessLeft, linesLeft>>

\* The loop of start_watching_all_containers: new(), start_watching() with
\* the existing lines loaded, and the two pushes, for each of n containers.
RECURSIVE EarlyWatchAll(_, _, _)
EarlyWatchAll(e, n, existing) ==
    IF n = 0 THEN e
    ELSE LET o == Len(e.objs) + 1
             t == Len(e.threads) + 1
         IN  EarlyWatchAll(
                 [e EXCEPT !.objs = Append(@, [log_lines |-> existing, running |-> TRUE]),
                           !.threads = Append(@, [obj |-> o, pc |-> "spawn",
                                                  proc |-> "none", line |-> <<>>]),
                           !.watchers = Append(@, o),
                           !.handles = Append(@, t)],
                 n - 1, existing)

\* start_watching_all_containers after its stop_all(): both Vecs are
\* cleared and a watcher is started for each container.
EarlyWatchDiscovered ==
    /\ early.pc = "stop_all"
    /\ early.h = 0
    /\ early.handles = <<>>
    /\ early.then = "watch"
    /\ \E existing \in ExistingLogs :
          early' = EarlyWatchAll([early EXCEPT !.pc = "idle", !.then = "", !.out = 0,
                                              !.watchers = <<>>, !.handles = <<>>,
                                              !.startsLeft = @ - early.out],
                                 early.out, existing)
    /\ result' = "ok"
    /\ UNCHANGED <<tabs, view, app, colls, sess, watchers, caller, snapshot, sessLeft, linesLeft>>

EarlyThreadStep(t) ==
    t \in EarlyThreads
        /\ (EarlyLaunch(t) \/ EarlyLaunchFail(t) \/ EarlyReadEof(t)
               \/ EarlyCheck(t) \/ EarlyPush(t))

EarlyOwnerStep ==
    EarlyPop \/ EarlyJoin \/ EarlyStopAllReturn \/ EarlyWatchDiscovered

EarlyInit ==
    /\ colls = <<>>
    /\ sess = <<>>
    /\ watchers = <<>>
    /\ caller = Idle
    /\ snapshot = NoSnapshot
    /\ result = "none"
    /\ sessLeft = 0
    /\ linesLeft = 0
    /\ tabs = NoTabs
    /\ view = NoView
    /\ app = NoApp
    /\ early = NewEarly

EarlyNext ==
    \/ EarlyDiscoveryFails
    \/ \E n \in 0..MaxEarlyWatchers : EarlyDiscoveryOk(n)
    \/ EarlyStopAllCall
    \/ EarlyPop \/ EarlyJoin \/ EarlyStopAllReturn \/ EarlyWatchDiscovered
    \/ \E t \in EarlyThreads : EarlyLaunch(t)
    \/ \E t \in EarlyThreads : EarlyLaunchFail(t)
    \/ \E t \in EarlyThreads : EarlyReadLine(t)
    \/ \E t \in EarlyThreads : EarlyReadErr(t)
    \/ \E t \in EarlyThreads : EarlyReadEof(t)
    \/ \E t \in EarlyThreads : EarlyCheck(t)
    \/ \E t \in EarlyThreads : EarlyPush(t)
    \/ \E t \in EarlyThreads : EarlyProcExit(t)

\* One manager of the earlier variant, created empty.
EarlySpec == EarlyInit /\ [][EarlyNext]_vars

\* Fair scheduling: every thread takes the steps that are its own and the
\* owner goes on inside a call.  Nothing obliges a container to print or
\* its `docker logs --follow` to end.
FairEarlySpec ==
    /\ EarlyInit /\ [][EarlyNext]_vars
    /\ WF_vars(EarlyOwnerStep)
    /\ \A t \in 1..MaxEarlyWatchers : WF_vars(EarlyThreadStep(t))

(***************************************************************************)
(* The log viewer loop: run_app of src/src/dplw/main_loop.rs.  Its locals  *)
(* are the record `app`: one LogView per container, the LogTabs and the    *)
(* height of the log area.  The loop runs on the thread that owns the      *)
(* DockerLogManager: each turn draws, then handles at most one key.  The   *)
(* 'r' key calls refresh(), which waits in the joins of stop_all(); the    *)
(* rest of the handler runs when refresh() has returned, and until then    *)
(* `result` holds what it returned.                                        *)
(***************************************************************************)
\* The locals of run_app before the loop: one tab and one empty LogView for
\* each watcher the manager holds.
NewApp(w) ==
    [pc |-> "loop",
     log_views |-> [k \in 1..Len(w) |-> NewView(DefaultMaxLogs)],
     log_tabs |-> NewTabs([k \in 1..Len(w) |-> colls[w[k]].container_name]),
     log_area_height |-> 0]

\* The loop is between two of its steps: no refresh() is in progress.
AppReady == app.pc = "loop" /\ caller.op = "idle" /\ result = "none"

\* log_views[active_tab], when active_tab < log_views.len().
HasActiveView == app.log_tabs.index < Len(app.log_views)

ActiveView ==
    IF HasActiveView THEN app.log_views[app.log_tabs.index + 1] ELSE NoView

\* add_log of each line, in order.
RECURSIVE AddAll(_, _)
AddAll(v, lines) ==
    IF lines = <<>> THEN v ELSE AddAll(add_log(v, Head(lines)), Tail(lines))

\* 'Update logs for current container if needed': the LogView is rebuilt
\* from the watcher's lines when the two counts differ, and the scroll
\* position is put back when it is still valid.
Updated(v, current_logs) ==
    IF get_log_count(v) # Len(current_logs)
    THEN LET fresh == AddAll(NewView(DefaultMaxLogs), current_logs)
         IN  IF v.scroll_position < get_log_count(fresh)
             THEN set_scroll_position(fresh, v.scroll_position)
             ELSE fresh
    ELSE v

\* render_log_view: what it leaves in the LogView.  The cache gets one slot
\* per entry, and the entries are parsed when 100 ms have passed.
render_log_view(v, should_recolor) ==
    [v EXCEPT !.parsed_cache = [k \in 1..Len(v.logs) |->
                                   IF should_recolor THEN TRUE
                                   ELSE IF k <= Len(@) THEN @[k] ELSE FALSE]]

\* terminal.draw: the LogView of the active tab is brought up to date from
\* a get_logs() of its watcher and rendered.  The terminal keeps its size:
\* the log area is MaxHeight lines high at every draw.
AppDraw ==
    /\ AppReady
    /\ LET c == get_watcher(app.log_tabs.index)
       IN  IF c # None /\ HasActiveView
           THEN /\ ~colls[c].locked
                /\ \E should_recolor \in BOOLEAN, height \in {MaxHeight} :
                      app' = [app EXCEPT
                                 !.log_views[app.log_tabs.index + 1] =
                                     render_log_view(Updated(@, colls[c].logs),
                                                     should_recolor),
                                 !.log_area_height = height]
           ELSE UNCHANGED app
    /\ UNCHANGED <<tabs, view, early, colls, sess, watchers, caller, snapshot, result, sessLeft, linesLeft>>

\* KeyCode::Right and KeyCode::Left.
AppTabKey(index) ==
    /\ AppReady
    /\ app' = [app EXCEPT !.log_tabs.index = index]
    /\ UNCHANGED <<tabs, view, early, colls, sess, watchers, caller, snapshot, result, sessLeft, linesLeft>>

\* A key that acts on the LogView of the active tab, when there is one:
\* `after` is the view the call leaves.
AppViewKey(after) ==
    /\ AppReady
    /\ app' = IF HasActiveView
              THEN [app EXCEPT !.log_views[app.log_tabs.index + 1] = after]
              ELSE app
    /\ UNCHANGED <<tabs, view, early, colls, sess, watchers, caller, snapshot, result, sessLeft, linesLeft>>

\* run_app has returned: its locals are dropped.
Returned == [NoApp EXCEPT !.pc = "returned"]

\* 'q' or Ctrl+C: run_app returns Ok(()).
AppQuit ==
    /\ AppReady
    /\ app' = Returned
    /\ UNCHANGED <<tabs, view, early, colls, sess, watchers, caller, snapshot, result, sessLeft, linesLeft>>

\* 'r': log_manager.refresh() is called and `docker ps` fails.
AppRefreshErr == AppReady /\ DiscoveryFails

\* 'r': log_manager.refresh() is called and enters its stop_all().
AppRefreshCall(output) == AppReady /\ DiscoveryOk(output)

\* 'r': refresh() returned Err and the `?` makes run_app return it.
AppRefreshFailed ==
    /\ app.pc = "loop"
    /\ caller.op = "idle"
    /\ result = "err"
    /\ app' = Returned
    /\ UNCHANGED <<tabs, view, early, colls, sess, watchers, caller, snapshot, result, sessLeft, linesLeft>>

\* A refresh handler that keeps the tabs and only recreates the views.
AppRefreshedKeepsTabs ==
    /\ app.pc = "loop"
    /\ caller.op = "idle"
    /\ result = "ok"
    /\ app' = [app EXCEPT !.log_views = NewApp(watchers).log_views]
    /\ result' = "none"
    /\ UNCHANGED <<tabs, view, early, colls, sess, watchers, caller, snapshot, sessLeft, linesLeft>>

\* 'r': refresh() returned Ok: the tabs are made anew from the names of the
\* held watchers and the views are recreated, one per name.
AppRefreshed ==
    /\ app.pc = "loop"
    /\ caller.op = "idle"
    /\ result = "ok"
    /\ app' = [NewApp(watchers) EXCEPT !.log_area_height = app.log_area_height]
    /\ result' = "none"
    /\ UNCHANGED <<tabs, view, early, colls, sess, watchers, caller, snapshot, sessLeft, linesLeft>>

\* The keys of the loop other than 'r' and quit.
AppKeys ==
    \/ AppTabKey(next(app.log_tabs))
    \/ AppTabKey(previous(app.log_tabs))
    \/ AppViewKey(scroll_up(ActiveView))
    \/ AppViewKey(scroll_down(ActiveView))
    \/ AppViewKey(scroll_to_top(ActiveView))
    \/ AppViewKey(scroll_to_bottom(ActiveView))
    \/ AppViewKey(page_up(ActiveView, app.log_area_height))
    \/ AppViewKey(page_down(ActiveView, app.log_area_height))
    \/ AppViewKey(enable_follow(ActiveView))

\* The viewer over a manager that watches one container; the capacity of
\* its watcher, 1000 in start_watching_container, is scaled down to any
\* small capacity so that the buffer fills up.
DrawInit ==
    /\ \E max \in 1..MaxCap :
          LET w == StartOn([colls |-> <<NewWatcher(NameA, max)>>, sess |-> <<>>,
                            watchers |-> <<1>>], 1)
          IN  /\ colls = w.colls /\ sess = w.sess /\ watchers = w.watchers
              /\ app = [pc |-> "loop",
                        log_views |-> <<NewView(DefaultMaxLogs)>>,
                        log_tabs |-> NewTabs(<<NameA>>),
                        log_area_height |-> 0]
    /\ caller = Idle
    /\ snapshot = NoSnapshot
    /\ result = "none"
    /\ sessLeft = 0
    /\ linesLeft = MaxLines
    /\ tabs = NoTabs
    /\ view = NoView
    /\ early = NoEarly

\* main of bin/dplw.rs after run_app has returned: log_manager.stop_all().
AppStopAll == app.pc = "returned" /\ ~AllHeldStopped /\ StopAllCall

\* main returns after its stop_all(): the manager is dropped.
AppDrop == app.pc = "returned" /\ AllHeldStopped /\ DropManager

DrawNext ==
    \/ AppDraw \/ AppKeys \/ AppQuit
    \/ AppStopAll \/ AppDrop
    \/ StopAllStop \/ StopAllJoin \/ StopAllReturn \/ DropReturn
    \/ Workers \/ Environment

\* The viewer without the 'r' key, from the start of its loop to the end of
\* main, over one watcher that fills up.
DrawSpec == DrawInit /\ [][DrawNext]_vars

\* The viewer as bin/dplw.rs enters it: the manager has started a watcher
\* for each container that `docker ps` printed, here fewer than MaxSess so
\* that a refresh can find a container.
AppInit ==
    /\ \E output \in {o \in PsOutputs : NonEmptyLines(o) < MaxSess} :
          LET w == WatchLines([colls |-> <<>>, sess |-> <<>>, watchers |-> <<>>],
                              output)
          IN  /\ colls = w.colls /\ sess = w.sess /\ watchers = w.watchers
              /\ sessLeft = MaxSess - Len(w.watchers)
    /\ app = NewApp(watchers)
    /\ caller = Idle
    /\ snapshot = NoSnapshot
    /\ result = "none"
    /\ linesLeft = MaxRegLines
    /\ tabs = NoTabs
    /\ view = NoView
    /\ early = NoEarly

AppNext ==
    \/ AppDraw \/ AppKeys \/ AppQuit
    \/ AppRefreshErr
    \/ \E output \in PsOutputs : AppRefreshCall(output)
    \/ StopAllStop \/ StopAllJoin \/ WatchDiscovered
    \/ AppRefreshFailed \/ AppRefreshed
    \/ Workers \/ Environment

\* The viewer loop over one manager.
AppSpec == AppInit /\ [][AppNext]_vars

\* C31 (as claimed): whenever a draw tick can read the watcher of the
\* active tab, the LogView it leaves for that tab holds exactly the lines
\* its get_logs() returns.
C31_ViewEqualsSnapshot ==
    \A c \in Watchers :
        (AppReady /\ HasActiveView /\ c = get_watcher(app.log_tabs.index)
              /\ ~colls[c].locked)
            => Updated(ActiveView, colls[c].logs).logs = colls[c].logs

\* C32 (as claimed): under fair scheduling a stop_all() of the earlier
\* variant that has cleared the flags returns, whether or not the watched
\* containers print another line.
C32_EarlyStopAllReturns ==
    (early.pc = "stop_all" /\ early.then = "return") ~> (early.pc = "idle")

\* The tabs, the views and the held watchers agree: one title and one view
\* per watcher, the titles are the watchers' names in Vec order, and the
\* selected tab exists when there is a watcher.
ViewerAgrees ==
    /\ Len(app.log_tabs.titles) = watcher_count
    /\ Len(app.log_views) = watcher_count
    /\ \A k \in 1..watcher_count :
          app.log_tabs.titles[k] = colls[watchers[k]].container_name
    /\ watcher_count > 0 => app.log_tabs.index < watcher_count

\* C38: in the viewer loop, between two steps of the loop, the number of
\* tab titles, the number of LogViews and watcher_count() are equal and the
\* selected tab index is below watcher_count() when that is positive; and
\* the step that finishes a successful refresh leaves the selected tab at 0
\* and every LogView empty.
C38_ViewerCounts ==
    [][/\ AppReady => ViewerAgrees
       /\ AppReady' => ViewerAgrees'
       /\ (app.pc = "loop" /\ result = "ok" /\ result' = "none")
             => /\ AppReady'
                /\ app'.log_tabs.index = 0
                /\ Len(app'.log_views) = watcher_count
                /\ \A k \in 1..Len(app'.log_views) :
                      app'.log_views[k] = NewView(DefaultMaxLogs)]_vars

\* C38 witness: a refresh has returned Ok with one watcher held, and the
\* handler is about to replace a LogView that holds a line.
C38_Witness ==
    /\ app.pc = "loop"
    /\ caller.op = "idle"
    /\ result = "ok"
    /\ watcher_count = 1
    /\ Len(app.log_views) = 1
    /\ app.log_views[1].logs # <<>>
====
